---- MODULE Spec2Model ----
(***************************************************************************)
(* Stencil operators on a block-distributed 1-D array (pnumpy):            *)
(*   - Laplacian        (src/src/pnLaplacian.py)                           *)
(*   - StencilOperator  (src/src/pnStencilOperator.py)                     *)
(* Every MPI process owns nloc consecutive cells of a ring/segment of      *)
(* nprocs*nloc cells.  All processes run the same program (SPMD).          *)
(***************************************************************************)
EXTENDS Integers, Sequences, FiniteSets, TLC

\* ------------------------------------------------------------------ bounds
\* number of global cells of the Laplacian runs
NGlobal == 4
\* input values are drawn from 0..MaxVal
MaxVal == 1
\* process counts of the StencilOperator runs are 1..MaxProcs
MaxProcs == 2
\* local extent of the StencilOperator runs
LocalLen == 2
\* stencil weights passed to addStencilBranch are 1..MaxWeight
MaxWeight == 2
\* number of addStencilBranch/removeStencilBranch calls in a run
MaxOps == 2
\* number of apply calls per process in a run
MaxCalls == 2
\* number of addStencilBranch/removeStencilBranch calls in a run without apply
MaxTableOps == 3

VARIABLES nprocs, nloc, periodic, gin, lapOrder,
          stencil, dpis, opLog,
          pc, k, calls, fenceCnt,
          inp, out, windows, nExp, nGet, ret

vars == <<nprocs, nloc, periodic, gin, lapOrder, stencil, dpis, opLog,
          pc, k, calls, fenceCnt, inp, out, windows, nExp, nGet,
          ret>>

Procs == 0 .. (nprocs - 1)

\* the "None" rank returned when there is no neighbor
NoProc == -1

\* ------------------------------------------------------------- numpy arrays
\* a local array is a function 0..n-1 -> Int; a slab is a sequence of values
Zeros(n) == [j \in 0 .. (n - 1) |-> 0]

ZeroSlab(len) == [j \in 1 .. len |-> 0]

\* Python slice(start, stop); toEnd stands for stop = None
Slice(start, stop, toEnd) == [start |-> start, stop |-> stop, toEnd |-> toEnd]

Clip(i, n) == IF i < 0 THEN (IF i + n < 0 THEN 0 ELSE i + n)
              ELSE (IF i > n THEN n ELSE i)

SliceLo(s, n) == Clip(s.start, n)

SliceHi(s, n) == IF s.toEnd THEN n ELSE Clip(s.stop, n)

SliceLen(s, n) == IF SliceHi(s, n) > SliceLo(s, n)
                  THEN SliceHi(s, n) - SliceLo(s, n) ELSE 0

\* a[s] for an array a of length n
Take(a, s, n) == [j \in 1 .. SliceLen(s, n) |-> a[SliceLo(s, n) + j - 1]]

\* a[s] = data
Put(a, s, n, data) ==
    [j \in 0 .. (n - 1) |->
        IF j >= SliceLo(s, n) /\ j < SliceLo(s, n) + SliceLen(s, n)
        THEN data[j - SliceLo(s, n) + 1] ELSE a[j]]

\* a[s] += w * data
AddInto(a, s, n, w, data) ==
    [j \in 0 .. (n - 1) |->
        IF j >= SliceLo(s, n) /\ j < SliceLo(s, n) + SliceLen(s, n)
        THEN a[j] + w * data[j - SliceLo(s, n) + 1] ELSE a[j]]

\* ------------------------------------------------------------ collaborators
\* Partition(ndims).shift(disp).getSlice(), one axis
Shift(d) == IF d > 0 THEN Slice(d, 0, TRUE)
            ELSE IF d < 0 THEN Slice(0, d, FALSE)
            ELSE Slice(0, 0, TRUE)

\* Partition(ndims).extract(disp).getSlice(), one axis
Extract(d) == IF d > 0 THEN Slice(-d, 0, TRUE)
              ELSE IF d < 0 THEN Slice(0, -d, FALSE)
              ELSE Slice(0, 0, TRUE)

\* CubeDecomp.getNeighborProc(rank, offset, periodic) on one axis
GetNeighborProc(rk, d, per) ==
    IF rk + d >= 0 /\ rk + d < nprocs THEN rk + d
    ELSE IF per THEN (rk + d) % nprocs
    ELSE NoProc

\* the block of the global input a process holds
LocalArray(p) == [j \in 0 .. (nloc - 1) |-> gin[p * nloc + j]]

\* DistArray.expose(slce, winID): registers the window with zeroed buffers
ExposeWin(wins, a, s, n, id) ==
    (id :> [slce |-> s, dataSrc |-> ZeroSlab(SliceLen(s, n)),
            dataDst |-> ZeroSlab(SliceLen(s, n))]) @@ wins

\* gdaZeros(shape, dtype): a zero array with one ghost window per side
GhostWindows(n) ==
    ExposeWin(ExposeWin(<<>>, Zeros(n), Slice(0, 1, FALSE), n, <<-1>>),
              Zeros(n), Slice(n - 1, n, FALSE), n, <<1>>)

\* DistArray.getData, first half: copy self[slce] into the window buffer
FillWin(wins, a, n, id) ==
    [wins EXCEPT ![id].dataSrc = Take(a, wins[id].slce, n)]

\* DistArray.getData, Get: read the remote window buffer (None: no read)
GetWin(wins, rk, id) ==
    IF rk = NoProc THEN wins
    ELSE [wins EXCEPT ![id].dataDst = windows[rk][id].dataSrc]

\* a fence that returns at once
FenceNoWait(p) == TRUE

\* a Fence returns once every process of the group has entered it
FenceOpen(p) == \A q \in Procs : fenceCnt[q] >= fenceCnt[p]

\* --------------------------------------------------------------- Laplacian
\* a stencil whose zero displacement weight lacks the factor 2
LapStencilUnitCentre == <<[disp |-> 0, weight |-> -1],
                          [disp |-> -1, weight |-> 1],
                          [disp |-> 1, weight |-> 1]>>

\* Laplacian.__init__: the stencil weights, in insertion order
LapStencil == <<[disp |-> 0, weight |-> -2],
                [disp |-> -1, weight |-> 1],
                [disp |-> 1, weight |-> 1]>>

\* the displacements in the order they are inserted into srcLocalDomains
LapDisps == <<-1, 1>>

\* the orders in which a dict with these keys can be iterated: insertion
\* order, or the hash order of an interpreter that does not keep it
LapOrders == {LapDisps, <<LapDisps[2], LapDisps[1]>>}

Weight(st, d) == (CHOOSE e \in {st[i] : i \in 1 .. Len(st)} : e.disp = d).weight

srcLocalDomains(d) == Shift(d)

dstLocalDomains(d) == Shift(-d)

srcSlab(d) == Extract(-d)

\* a destination slab on the side the displacement points away from
dstSlabOpposite(d) == Extract(-d)

dstSlab(d) == Extract(d)

\* a neighbor lookup that answers the process itself where there is no neighbor
neighRkSelf(p, d) ==
    IF GetNeighborProc(p, d, periodic) = NoProc THEN p
    ELSE GetNeighborProc(p, d, periodic)

\* a neighbor lookup that ignores the periodic argument and always wraps
neighRkWrap(p, d) == GetNeighborProc(p, d, TRUE)

neighRk(p, d) == GetNeighborProc(p, d, periodic)

\* a window id naming the slab on the same side as the displacement
winIdsSameSide(d) == <<d>>

winIds(d) == <<-d>>

\* lines 88-95: allocate inp and out, add the zero displacement term; every
\* process calls apply once on its block
LapBegin(p) ==
    /\ pc[p] = "idle"
    /\ calls' = [calls EXCEPT ![p] = @ + 1]
    /\ inp' = [inp EXCEPT ![p] = Zeros(nloc)]
    /\ windows' = [windows EXCEPT ![p] = GhostWindows(nloc)]
    /\ out' = [out EXCEPT ![p] =
                 AddInto(Zeros(nloc), Shift(0), nloc, Weight(stencil, 0),
                         Take(LocalArray(p), Shift(0), nloc))]
    /\ k' = [k EXCEPT ![p] = 1]
    /\ nExp' = [nExp EXCEPT ![p] = 0]
    /\ nGet' = [nGet EXCEPT ![p] = 0]
    /\ pc' = [pc EXCEPT ![p] = "loop"]
    /\ UNCHANGED <<nprocs, nloc, periodic, gin, lapOrder, stencil, dpis,
                   opLog>>
    /\ UNCHANGED <<fenceCnt, ret>>

\* the array out after line 104
LapLocalOut(p, d) ==
    AddInto(out[p], dstLocalDomains(d), nloc, Weight(stencil, d),
            Take(LocalArray(p), srcLocalDomains(d), nloc))

\* an inp whose slab is not yet assigned when getData is issued
LapPublishLater(p, d) == inp[p]

\* the array inp after line 112
LapPublish(p, d) ==
    Put(inp[p], srcSlab(d), nloc, Take(LocalArray(p), srcSlab(d), nloc))

\* lines 99-118 up to the first fence of getData
LapLocal(p) ==
    /\ pc[p] = "loop"
    /\ LET d == lapOrder[k[p]] IN
        /\ out' = [out EXCEPT ![p] = LapLocalOut(p, d)]
        /\ inp' = [inp EXCEPT ![p] = LapPublish(p, d)]
        /\ windows' = [windows EXCEPT ![p] =
                         FillWin(@, LapPublish(p, d), nloc, winIds(d))]
    /\ nExp' = [nExp EXCEPT ![p] = @ + 1]
    /\ nGet' = [nGet EXCEPT ![p] = @ + 1]
    /\ fenceCnt' = [fenceCnt EXCEPT ![p] = @ + 1]
    /\ pc' = [pc EXCEPT ![p] = "fence1"]
    /\ UNCHANGED <<nprocs, nloc, periodic, gin, lapOrder, stencil, dpis,
                   opLog>>
    /\ UNCHANGED <<k, calls, ret>>

\* line 118, getData between its two fences
LapGet(p) ==
    /\ pc[p] = "fence1"
    /\ FenceOpen(p)
    /\ LET d == lapOrder[k[p]] IN
        windows' = [windows EXCEPT ![p] =
                      GetWin(@, neighRk(p, d), winIds(d))]
    /\ fenceCnt' = [fenceCnt EXCEPT ![p] = @ + 1]
    /\ pc' = [pc EXCEPT ![p] = "fence2"]
    /\ UNCHANGED <<nprocs, nloc, periodic, gin, lapOrder, stencil, dpis,
                   opLog>>
    /\ UNCHANGED <<k, calls, inp, out, nExp, nGet, ret>>

\* a halo term that is assigned to the slab instead of added to it
LapHaloOutAssign(p, d) ==
    Put(out[p], dstSlab(d), nloc,
        [j \in 1 .. SliceLen(dstSlab(d), nloc) |->
            Weight(stencil, d) * windows[p][winIds(d)].dataDst[j]])

\* the array out after line 118
LapHaloOut(p, d) ==
    AddInto(out[p], dstSlab(d), nloc, Weight(stencil, d),
            windows[p][winIds(d)].dataDst)

\* line 118, after getData returned; line 120 after the last displacement
LapAccum(p) ==
    /\ pc[p] = "fence2"
    /\ FenceOpen(p)
    /\ out' = [out EXCEPT ![p] = LapHaloOut(p, lapOrder[k[p]])]
    /\ IF k[p] < Len(LapDisps)
       THEN /\ k' = [k EXCEPT ![p] = @ + 1]
            /\ pc' = [pc EXCEPT ![p] = "loop"]
       ELSE /\ k' = [k EXCEPT ![p] = 0]
            /\ pc' = [pc EXCEPT ![p] = "done"]
    /\ UNCHANGED <<nprocs, nloc, periodic, gin, lapOrder, stencil, dpis,
                   opLog>>
    /\ UNCHANGED <<calls, fenceCnt, inp, windows, nExp, nGet, ret>>

\* the inputs of the Laplacian runs: all arrays over 0..MaxVal and the ramp
Ramp(n) == [i \in 0 .. (n - 1) |-> i + 1]

LapInputs == [0 .. (NGlobal - 1) -> 0 .. MaxVal] \cup {Ramp(NGlobal)}

InitProcState ==
    /\ pc = [p \in Procs |-> "idle"]
    /\ k = [p \in Procs |-> 0]
    /\ calls = [p \in Procs |-> 0]
    /\ fenceCnt = [p \in Procs |-> 0]
    /\ inp = [p \in Procs |-> Zeros(nloc)]
    /\ out = [p \in Procs |-> Zeros(nloc)]
    /\ windows = [p \in Procs |-> <<>>]
    /\ nExp = [p \in Procs |-> 0]
    /\ nGet = [p \in Procs |-> 0]
    /\ ret = [p \in Procs |-> <<>>]

InitLap ==
    /\ nprocs \in {P \in 1 .. NGlobal : NGlobal % P = 0}
    /\ nloc = NGlobal \div nprocs
    /\ periodic \in BOOLEAN
    /\ gin \in LapInputs
    /\ lapOrder \in LapOrders
    /\ stencil = LapStencil
    /\ dpis = [p \in Procs |-> <<>>]
    /\ opLog = <<>>
    /\ InitProcState

NextLap ==
    \/ \E p \in Procs : LapBegin(p)
    \/ \E p \in Procs : LapLocal(p)
    \/ \E p \in Procs : LapGet(p)
    \/ \E p \in Procs : LapAccum(p)

SpecLap == InitLap /\ [][NextLap]_vars

\* ------------------------------------------------ properties of Laplacian
NTotal == nprocs * nloc

\* the output the processes hold for global cell i
GlobalOut(i) == out[i \div nloc][i % nloc]

AllDone == \A p \in Procs : pc[p] = "done"

IsConstant(a) == \A i \in DOMAIN a : a[i] = a[0]

\* the stencil on the unpartitioned ring
SerialRing(i) == gin[(i - 1) % NTotal] - 2 * gin[i] + gin[(i + 1) % NTotal]

\* the stencil on the unpartitioned segment, nothing beyond its two ends
SerialSegment(i) ==
    (IF i > 0 THEN gin[i - 1] ELSE 0) - 2 * gin[i]
    + (IF i < NTotal - 1 THEN gin[i + 1] ELSE 0)

\* C1: on a periodic ring split evenly among the processes, the output
\* every process returns from Laplacian.apply holds, at each of its
\* cells, in[i-1] - 2*in[i] + in[i+1] with wraparound at the global index;
\* the input 1,2,3,4 gives 4,0,0,-4 for every process count.
C1_LaplacianRingEquivalence ==
    periodic =>
        /\ \A p \in Procs : pc[p] = "done" =>
              \A j \in 0 .. (nloc - 1) : out[p][j] = SerialRing(p * nloc + j)
        /\ (AllDone /\ gin = Ramp(4)) =>
              [i \in 0 .. 3 |-> GlobalOut(i)] = (0 :> 4 @@ 1 :> 0 @@ 2 :> 0 @@ 3 :> -4)

\* two processes have returned the Laplacian of the ramp on the ring
C1_Witness ==
    /\ periodic /\ nprocs = 2 /\ AllDone
    /\ gin = Ramp(NGlobal)
    /\ GlobalOut(0) = NGlobal

\* C6: with periodicity disabled the outward displacement of a boundary
\* cell contributes nothing: the first cell gets in[1] - 2*in[0], the last
\* in[N-2] - 2*in[N-1], interior cells the full three-point sum.
C6_LaplacianOpenEdges ==
    ~periodic =>
        \A p \in Procs : pc[p] = "done" =>
            \A j \in 0 .. (nloc - 1) : out[p][j] = SerialSegment(p * nloc + j)

\* a non-periodic run on several processes whose end cells hold non-zero
\* values, so that a wrapped contribution would show
C6_Witness ==
    /\ ~periodic /\ nprocs > 1 /\ AllDone
    /\ gin[0] > 0 /\ gin[NTotal - 1] > 0
    /\ GlobalOut(0) = gin[1] - 2 * gin[0]

\* C10: the periodic Laplacian of a spatially constant input is zero on
\* every process, for every process count.
C10_ConstantFieldIsZero ==
    (periodic /\ IsConstant(gin)) =>
        \A p \in Procs : pc[p] = "done" => out[p] = Zeros(nloc)

\* every cell on its own process, a non-zero constant input, all returned
C10_Witness ==
    /\ periodic /\ IsConstant(gin) /\ gin[0] > 0
    /\ nprocs = NGlobal /\ AllDone
    /\ \A p \in Procs : out[p] = Zeros(nloc)

\* the three-point sum written without any order of its terms
OrderFreeOut(p) ==
    [j \in 0 .. (nloc - 1) |->
        IF periodic THEN SerialRing(p * nloc + j)
        ELSE SerialSegment(p * nloc + j)]

FetchingNoNeighbor(p) ==
    /\ pc[p] \in {"fence1", "fence2"}
    /\ GetNeighborProc(p, lapOrder[k[p]], periodic) = NoProc

\* C14 as stated: for a displacement whose neighbor lookup returned the "no
\* neighbor" sentinel apply issues no publish and no fetch, so no process is
\* ever inside a getData whose remote rank is the sentinel.
C14_NoNeighborSkipped ==
    \A p \in Procs : ~FetchingNoNeighbor(p)

\* C14, amended: for a displacement without neighbor apply still publishes
\* the slab and still issues getData, with the sentinel as remote rank; that
\* getData reads nothing, and the slab it returns is zero.
C14_NoNeighborFetchReadsNothing ==
    \A p \in Procs :
        FetchingNoNeighbor(p) =>
            /\ nExp[p] = k[p] /\ nGet[p] = k[p]
            /\ windows[p][winIds(lapOrder[k[p]])].dataSrc
                 = Take(LocalArray(p), srcSlab(lapOrder[k[p]]), nloc)
            /\ pc[p] = "fence2" =>
                 windows[p][winIds(lapOrder[k[p]])].dataDst = ZeroSlab(1)

\* a process at the open end of the segment is back from the Get of its
\* outward displacement, having published a non-zero slab
C14_Witness ==
    \E p \in Procs :
        /\ FetchingNoNeighbor(p) /\ pc[p] = "fence2" /\ nprocs > 1
        /\ windows[p][winIds(lapOrder[k[p]])].dataSrc # ZeroSlab(1)
        /\ windows[p][winIds(lapOrder[k[p]])].dataDst = ZeroSlab(1)

\* the cells of a local array of extent n a slice selects
Cells(s, n) == {j \in 0 .. (n - 1) : j >= SliceLo(s, n) /\ j < SliceHi(s, n)}

\* C16: for each displacement of the Laplacian and every local extent, one
\* cell included, the destination of the local pair and the destination of
\* the halo pair are disjoint and together cover every cell, and source and
\* destination of each pair hold the same number of cells.
C16_NoDoubleCounting ==
    \A i \in 1 .. Len(LapDisps) :
        LET d == LapDisps[i] IN
            /\ Cells(dstLocalDomains(d), nloc) \cap Cells(dstSlab(d), nloc) = {}
            /\ Cells(dstLocalDomains(d), nloc) \cup Cells(dstSlab(d), nloc)
                 = 0 .. (nloc - 1)
            /\ Cardinality(Cells(srcLocalDomains(d), nloc))
                 = Cardinality(Cells(dstLocalDomains(d), nloc))
            /\ Cardinality(Cells(srcSlab(d), nloc))
                 = Cardinality(Cells(dstSlab(d), nloc))

\* a run with one cell per process has ended: the local pair is empty, the
\* halo pair is the cell, and the cell holds one term per displacement
C16_Witness ==
    /\ nloc = 1 /\ periodic /\ AllDone /\ gin = Ramp(NGlobal)
    /\ \A i \in 1 .. Len(LapDisps) :
          /\ Cells(dstLocalDomains(LapDisps[i]), nloc) = {}
          /\ Cells(dstSlab(LapDisps[i]), nloc) = {0}
    /\ out[0][0] = SerialRing(0)

\* --------------------------------------------------------- StencilOperator
\* the displacements and weights the runs pass to addStencilBranch
Disps == {-1, 0, 1}

Weights == 1 .. MaxWeight

\* Python dict, in insertion order: a sequence of records keyed by disp
DictHas(dict, d) == \E i \in 1 .. Len(dict) : dict[i].disp = d

DictGet(dict, d) == dict[CHOOSE i \in 1 .. Len(dict) : dict[i].disp = d]

\* dict[d] = e
DictSet(dict, d, e) ==
    IF DictHas(dict, d)
    THEN [i \in 1 .. Len(dict) |-> IF dict[i].disp = d THEN e ELSE dict[i]]
    ELSE Append(dict, e)

\* del dict[d]
DictDel(dict, d) == SelectSeq(dict, LAMBDA e : e.disp # d)

\* DomainPartitionIter(disp): the directions of its partitions, one axis
PartDirs(d) == IF d = 0 THEN <<0>> ELSE <<0, d>>

\* DomainPartitionIter(disp): the slice of the partition in direction dir
PartSlice(d, dir) == IF dir = 0 THEN Shift(d) ELSE Extract(-d)

\* a plan whose window ids name the partition alone, not the displacement
PartitionLogicPartIds(p, d) ==
    [disp |-> d,
     srcs |-> [i \in 1 .. Len(PartDirs(d)) |-> PartSlice(d, PartDirs(d)[i])],
     dsts |-> [i \in 1 .. Len(PartDirs(d)) |-> PartSlice(-d, PartDirs(-d)[i])],
     remoteRanks |-> [i \in 1 .. Len(PartDirs(d)) |->
                        GetNeighborProc(p, PartDirs(d)[i], periodic)],
     remoteWinIds |-> [i \in 1 .. Len(PartDirs(d)) |-> <<0, PartDirs(d)[i]>>]]

\* __setPartionLogic, lines 62-84: the plan stored in dpis[disp]
PartitionLogic(p, d) ==
    [disp |-> d,
     srcs |-> [i \in 1 .. Len(PartDirs(d)) |-> PartSlice(d, PartDirs(d)[i])],
     dsts |-> [i \in 1 .. Len(PartDirs(d)) |-> PartSlice(-d, PartDirs(-d)[i])],
     remoteRanks |-> [i \in 1 .. Len(PartDirs(d)) |->
                        GetNeighborProc(p, PartDirs(d)[i], periodic)],
     remoteWinIds |-> [i \in 1 .. Len(PartDirs(d)) |-> <<d, PartDirs(d)[i]>>]]

\* a table that appends a pair on every call instead of overwriting
AddWeightAppend(st, d, w) == Append(st, [disp |-> d, weight |-> w])

\* addStencilBranch, line 49
AddWeight(st, d, w) == DictSet(st, d, [disp |-> d, weight |-> w])

\* addStencilBranch, line 50
AddPlan(dp, p, d) == DictSet(dp, d, PartitionLogic(p, d))

\* removeStencilBranch, lines 57-58: line 58 names self.dpsi, an attribute
\* that does not exist, so it raises and self.dpis keeps its entry
RemoveBranch(st, dp, d) ==
    IF ~DictHas(st, d)
    THEN [stencil |-> st, dpis |-> dp, err |-> "KeyError"]
    ELSE [stencil |-> DictDel(st, d), dpis |-> dp, err |-> "AttributeError"]

AllIdle == \A p \in Procs : pc[p] = "idle"

LogEntry(op, d, w, err) ==
    [op |-> op, disp |-> d, weight |-> w, err |-> err,
     preStencil |-> stencil, preDpis |-> dpis]

\* a displacement of more than one unit step
UnsupportedDisp == 2

\* __setPartionLogic, lines 62-63: the partition iterator raises for a
\* displacement it does not support
PlanRaises(d) == d \notin {-1, 0, 1}

\* every process calls addStencilBranch(disp, weight): line 49 stores the
\* weight, then line 50 computes the plan; an exception of line 50 leaves
\* the method after line 49 has run
AddStencilBranch(d, w) ==
    /\ AllIdle
    /\ stencil' = AddWeight(stencil, d, w)
    /\ dpis' = IF PlanRaises(d) THEN dpis
             ELSE [p \in Procs |-> AddPlan(dpis[p], p, d)]
    /\ opLog' = Append(opLog, LogEntry("add", d, w,
                                       IF PlanRaises(d) THEN "PlanError"
                                       ELSE "none"))
    /\ UNCHANGED <<nprocs, nloc, periodic, gin, lapOrder, pc, k, calls, fenceCnt,
                   inp, out, windows, nExp, nGet, ret>>

\* every process calls removeStencilBranch(disp)
RemoveStencilBranch(d) ==
    /\ AllIdle
    /\ stencil' = RemoveBranch(stencil, dpis[0], d).stencil
    /\ dpis' = [p \in Procs |-> RemoveBranch(stencil, dpis[p], d).dpis]
    /\ opLog' = Append(opLog, LogEntry("remove", d, 0,
                                       RemoveBranch(stencil, dpis[0], d).err))
    /\ UNCHANGED <<nprocs, nloc, periodic, gin, lapOrder, pc, k, calls, fenceCnt,
                   inp, out, windows, nExp, nGet, ret>>

\* the windows of one plan, in the order of the loop of line 110
PlanWindows(e) ==
    [i \in 1 .. Len(e.srcs) |-> [winId |-> e.remoteWinIds[i], slce |-> e.srcs[i]]]

RECURSIVE FlatExpose(_)
FlatExpose(dp) ==
    IF dp = <<>> THEN <<>> ELSE PlanWindows(Head(dp)) \o FlatExpose(Tail(dp))

\* lines 103-112: the expose calls of one apply, in order
ExposeList(p) == FlatExpose(dpis[p])

\* the getData calls of one stencil entry, in the order of the loop of line 126
BranchFetches(dp, e) ==
    [i \in 1 .. Len(DictGet(dp, e.disp).srcs) |->
        [disp |-> e.disp,
         weight |-> e.weight,
         dst |-> DictGet(dp, e.disp).dsts[i],
         remoteRank |-> DictGet(dp, e.disp).remoteRanks[i],
         winId |-> DictGet(dp, e.disp).remoteWinIds[i]]]

RECURSIVE FlatFetch(_, _)
FlatFetch(dp, st) ==
    IF st = <<>> THEN <<>>
    ELSE BranchFetches(dp, Head(st)) \o FlatFetch(dp, Tail(st))

\* a fetch loop that leaves out the partitions without neighbor
FetchListSkipNoNeighbor(p) ==
    SelectSeq(FlatFetch(dpis[p], stencil), LAMBDA f : f.remoteRank # NoProc)

\* lines 115-134: the getData calls of one apply, in order
FetchList(p) == FlatFetch(dpis[p], stencil)

\* an expose loop left after the windows of its first entry
AfterExposeFirstOnly(p, j) ==
    IF j < Len(ExposeList(p)) /\ j < Len(PlanWindows(Head(dpis[p]))) THEN "expose"
    ELSE IF Len(FetchList(p)) > 0 THEN "fetch" ELSE "free"

\* where apply continues after j expose calls
AfterExpose(p, j) ==
    IF j < Len(ExposeList(p)) THEN "expose"
    ELSE IF Len(FetchList(p)) > 0 THEN "fetch" ELSE "free"

\* where apply continues after j getData calls
AfterFetch(p, j) == IF j < Len(FetchList(p)) THEN "fetch" ELSE "free"

\* an output array that starts as a copy of the input
NewOutCopy(p) == LocalArray(p)

\* line 100: the output array before the loops
NewOut(p) == Zeros(nloc)

\* line 96: the distributed input array
NewInp(p) == Zeros(nloc)

\* an apply that overwrites the caller's array
ApplyFrameWritesInput ==
    /\ gin' = [i \in DOMAIN gin |-> 0]
    /\ UNCHANGED <<nprocs, nloc, periodic, lapOrder, stencil, dpis, opLog>>

\* lines 88-139: apply assigns no attribute of the operator and never writes
\* into localArray
ApplyFrame ==
    UNCHANGED <<nprocs, nloc, periodic, gin, lapOrder, stencil, dpis,
                opLog>>

\* lines 96-100
ApplyBegin(p) ==
    /\ pc[p] = "idle"
    /\ calls[p] < MaxCalls
    /\ calls' = [calls EXCEPT ![p] = @ + 1]
    /\ inp' = [inp EXCEPT ![p] = NewInp(p)]
    /\ out' = [out EXCEPT ![p] = NewOut(p)]
    /\ windows' = [windows EXCEPT ![p] = <<>>]
    /\ k' = [k EXCEPT ![p] = 1]
    /\ nExp' = [nExp EXCEPT ![p] = 0]
    /\ nGet' = [nGet EXCEPT ![p] = 0]
    /\ pc' = [pc EXCEPT ![p] = AfterExpose(p, 0)]
    /\ ApplyFrame
    /\ UNCHANGED <<fenceCnt, ret>>

\* line 112: one inp.expose
Expose(p) ==
    /\ pc[p] = "expose"
    /\ LET w == ExposeList(p)[k[p]] IN
        windows' = [windows EXCEPT ![p] = ExposeWin(@, inp[p], w.slce, nloc, w.winId)]
    /\ nExp' = [nExp EXCEPT ![p] = @ + 1]
    /\ pc' = [pc EXCEPT ![p] = AfterExpose(p, k[p])]
    /\ k' = [k EXCEPT ![p] = IF AfterExpose(p, k[p]) = "expose" THEN @ + 1 ELSE 1]
    /\ ApplyFrame
    /\ UNCHANGED <<calls, fenceCnt, inp, out, nGet, ret>>

\* what apply does when a call of the remote array raises: lines 102-139 hold
\* no try/finally, so the exception leaves apply at once
OnRaise(p) == "failed"

\* line 134: getData is issued and runs up to its first fence; a window id
\* that was not exposed on this process is a KeyError
GetDataEnter(p) ==
    /\ pc[p] = "fetch"
    /\ nGet' = [nGet EXCEPT ![p] = @ + 1]
    /\ IF FetchList(p)[k[p]].winId \in DOMAIN windows[p]
       THEN /\ windows' = [windows EXCEPT ![p] =
                             FillWin(@, inp[p], nloc, FetchList(p)[k[p]].winId)]
            /\ fenceCnt' = [fenceCnt EXCEPT ![p] = @ + 1]
            /\ pc' = [pc EXCEPT ![p] = "fence1"]
       ELSE /\ pc' = [pc EXCEPT ![p] = OnRaise(p)]
            /\ UNCHANGED <<windows, fenceCnt>>
    /\ ApplyFrame
    /\ UNCHANGED <<k, calls, inp, out, nExp, ret>>

\* the slab a Get reads on the remote process: its window buffer, or, if the
\* remote process holds no such window, memory of unknown content
RemoteData(p, rk, id) ==
    IF rk = NoProc THEN {windows[p][id].dataDst}
    ELSE IF id \in DOMAIN windows[rk] THEN {windows[rk][id].dataSrc}
    ELSE [1 .. Len(windows[p][id].dataDst) -> 0 .. MaxVal]

\* line 134: getData between its two fences
GetDataGet(p) ==
    /\ pc[p] = "fence1"
    /\ FenceOpen(p)
    /\ LET f == FetchList(p)[k[p]] IN
        \E data \in RemoteData(p, f.remoteRank, f.winId) :
            windows' = [windows EXCEPT ![p][f.winId].dataDst = data]
    /\ fenceCnt' = [fenceCnt EXCEPT ![p] = @ + 1]
    /\ pc' = [pc EXCEPT ![p] = "fence2"]
    /\ ApplyFrame
    /\ UNCHANGED <<k, calls, inp, out, nExp, nGet, ret>>

\* line 134: out[dstSlce] += weight * (the array getData returned)
Accumulate(p, f) ==
    AddInto(out[p], f.dst, nloc, f.weight, windows[p][f.winId].dataDst)

GetDataExit(p) ==
    /\ pc[p] = "fence2"
    /\ FenceOpen(p)
    /\ out' = [out EXCEPT ![p] = Accumulate(p, FetchList(p)[k[p]])]
    /\ pc' = [pc EXCEPT ![p] = AfterFetch(p, k[p])]
    /\ k' = [k EXCEPT ![p] = IF AfterFetch(p, k[p]) = "fetch" THEN @ + 1 ELSE 0]
    /\ ApplyFrame
    /\ UNCHANGED <<calls, fenceCnt, inp, windows, nExp, nGet, ret>>

\* line 137: inp.free()
Free(p) ==
    /\ pc[p] = "free"
    /\ windows' = [windows EXCEPT ![p] = <<>>]
    /\ pc' = [pc EXCEPT ![p] = "done"]
    /\ ApplyFrame
    /\ UNCHANGED <<k, calls, fenceCnt, inp, out, nExp, nGet, ret>>

\* the array the caller receives, with the tables it was computed from
Returned(p) == [stencil |-> stencil, dpis |-> dpis[p], out |-> out[p]]

\* line 139: return out
Return(p) ==
    /\ pc[p] = "done"
    /\ pc' = [pc EXCEPT ![p] = "idle"]
    /\ ret' = [ret EXCEPT ![p] = Append(@, Returned(p))]
    /\ ApplyFrame
    /\ UNCHANGED <<k, calls, fenceCnt, inp, out, windows, nExp, nGet>>

\* line 112: inp.expose raises
ExposeRaises(p) ==
    /\ pc[p] = "expose"
    /\ pc' = [pc EXCEPT ![p] = OnRaise(p)]
    /\ ApplyFrame
    /\ UNCHANGED <<k, calls, fenceCnt, inp, out, windows, nExp, nGet, ret>>

\* line 134: inp.getData raises
GetDataRaises(p) ==
    /\ pc[p] = "fetch"
    /\ pc' = [pc EXCEPT ![p] = OnRaise(p)]
    /\ ApplyFrame
    /\ UNCHANGED <<k, calls, fenceCnt, inp, out, windows, nExp, nGet, ret>>

\* test1d, line 152: (rk + 1) * ones, scaled
RankInput(n, c) == [i \in 0 .. (n - 1) |-> c * ((i \div LocalLen) + 1)]

OpInputs(n) == {RankInput(n, c) : c \in 1 .. MaxVal} \cup {Ramp(n)}

Init ==
    /\ nprocs \in 1 .. MaxProcs
    /\ nloc = LocalLen
    /\ periodic \in BOOLEAN
    /\ gin \in OpInputs(nprocs * LocalLen)
    /\ lapOrder = LapDisps
    /\ stencil = <<>>
    /\ dpis = [p \in Procs |-> <<>>]
    /\ opLog = <<>>
    /\ InitProcState

Next ==
    \/ \E d \in Disps, w \in Weights :
          Len(opLog) < MaxOps /\ AddStencilBranch(d, w)
    \/ \E d \in Disps : Len(opLog) < MaxOps /\ RemoveStencilBranch(d)
    \/ \E p \in Procs : ApplyBegin(p)
    \/ \E p \in Procs : Expose(p)
    \/ \E p \in Procs : ExposeRaises(p)
    \/ \E p \in Procs : GetDataEnter(p)
    \/ \E p \in Procs : GetDataRaises(p)
    \/ \E p \in Procs : GetDataGet(p)
    \/ \E p \in Procs : GetDataExit(p)
    \/ \E p \in Procs : Free(p)
    \/ \E p \in Procs : Return(p)

Spec == Init /\ [][Next]_vars

\* the operator's tables alone: sequences of addStencilBranch and
\* removeStencilBranch calls
NextTables ==
    \/ \E d \in Disps, w \in Weights :
          Len(opLog) < MaxTableOps /\ AddStencilBranch(d, w)
    \/ \E d \in Disps : Len(opLog) < MaxTableOps /\ RemoveStencilBranch(d)

SpecTables == Init /\ [][NextTables]_vars

\* the displacements of the runs in which a plan computation can fail
AnyDisps == Disps \cup {UnsupportedDisp}

\* the operator's tables, with calls that end in an error of the planner
NextAnyDisps ==
    \/ \E d \in AnyDisps, w \in Weights :
          Len(opLog) < MaxTableOps /\ AddStencilBranch(d, w)
    \/ \E d \in AnyDisps : Len(opLog) < MaxTableOps /\ RemoveStencilBranch(d)

SpecAnyDisps == Init /\ [][NextAnyDisps]_vars

\* one step of the only apply call of process p, none of them raising
ApplyOnceStep(p) ==
    \/ calls[p] = 0 /\ ApplyBegin(p)
    \/ Expose(p)
    \/ GetDataEnter(p)
    \/ GetDataGet(p)
    \/ GetDataExit(p)
    \/ Free(p)

NoCallYet == \A p \in Procs : calls[p] = 0

\* the branches are set, then every process calls apply once and keeps
\* running until it has returned
NextOnce ==
    \/ \E d \in Disps, w \in Weights :
          Len(opLog) < MaxOps /\ NoCallYet /\ AddStencilBranch(d, w)
    \/ \E d \in Disps :
          Len(opLog) < MaxOps /\ NoCallYet /\ RemoveStencilBranch(d)
    \/ \E p \in Procs : calls[p] = 0 /\ ApplyBegin(p)
    \/ \E p \in Procs : Expose(p)
    \/ \E p \in Procs : GetDataEnter(p)
    \/ \E p \in Procs : GetDataGet(p)
    \/ \E p \in Procs : GetDataExit(p)
    \/ \E p \in Procs : Free(p)

\* every process is an MPI process of its own that keeps executing
FairProcs ==
    \A p \in 0 .. (MaxProcs - 1) : WF_vars(p \in Procs /\ ApplyOnceStep(p))

SpecOnce == Init /\ [][NextOnce]_vars /\ FairProcs

\* ------------------------------------------ properties of StencilOperator
RECURSIVE SerialSum(_, _)
\* the stencil st on the unpartitioned ring, at global cell i
SerialSum(st, i) ==
    IF st = <<>> THEN 0
    ELSE Head(st).weight * gin[(i + Head(st).disp) % NTotal] + SerialSum(Tail(st), i)

\* C2: on a periodic ring the output every process returns from
\* StencilOperator.apply equals the stencil evaluated on the unpartitioned
\* global array: the sum over the branches of weight times the input at the
\* displaced cell.
C2_StencilRingEquivalence ==
    periodic =>
        \A p \in Procs : pc[p] = "done" =>
            \A j \in 0 .. (nloc - 1) : out[p][j] = SerialSum(stencil, p * nloc + j)

InCall(p) == pc[p] \in {"expose", "fetch", "fence1", "fence2", "free", "done", "failed"}

\* C3: within one apply call, once the first getData has been issued every
\* window of every entry of the plan table has been exposed.
C3_ExposeAllBeforeFetch ==
    \A p \in Procs :
        (InCall(p) /\ nGet[p] > 0) =>
            /\ nExp[p] = Len(ExposeList(p))
            /\ pc[p] \in {"fetch", "fence1", "fence2"} =>
                 \A i \in 1 .. Len(ExposeList(p)) :
                     ExposeList(p)[i].winId \in DOMAIN windows[p]

\* a process with two registered displacements has issued its first getData
C3_Witness ==
    \E p \in Procs :
        /\ pc[p] = "fence1" /\ nGet[p] = 1
        /\ Len(dpis[p]) = 2
        /\ nExp[p] = Len(ExposeList(p)) /\ nExp[p] >= 3

\* C4: under every interleaving, when a fetch of (remoteRank, winId) reads
\* its data, the remote process holds window winId, exposed in its call in
\* progress and not yet released.
C4_FetchSeesExposedWindow ==
    [][\A p \in Procs :
         (pc[p] = "fence1" /\ pc'[p] = "fence2"
            /\ FetchList(p)[k[p]].remoteRank # NoProc) =>
           /\ FetchList(p)[k[p]].winId \in DOMAIN windows[FetchList(p)[k[p]].remoteRank]
           /\ pc[FetchList(p)[k[p]].remoteRank] \in {"fence1", "fence2"}
           /\ nExp[FetchList(p)[k[p]].remoteRank]
                = Len(ExposeList(FetchList(p)[k[p]].remoteRank))]_vars

\* in its second call, a process has read a window of the other process
C4_Witness ==
    \E p \in Procs :
        /\ pc[p] = "fence2" /\ calls[p] = 2
        /\ FetchList(p)[k[p]].remoteRank \notin {NoProc, p}
        /\ FetchList(p)[k[p]].winId \in DOMAIN windows[FetchList(p)[k[p]].remoteRank]

\* the tables after the i-th logged call
PostStencil(i) == IF i = Len(opLog) THEN stencil ELSE opLog[i + 1].preStencil

PostDpis(i) == IF i = Len(opLog) THEN dpis ELSE opLog[i + 1].preDpis

\* the i-th and the next logged call are op1 and op2 on one displacement
Pair(i, op1, op2) ==
    /\ opLog[i].op = op1 /\ opLog[i + 1].op = op2
    /\ opLog[i].disp = opLog[i + 1].disp

\* C5: addStencilBranch(d, w) on an operator that holds no d, followed by
\* removeStencilBranch(d), completes without error and restores the stencil
\* and the plan table.
C5_AddRemoveRestores ==
    \A i \in 1 .. (Len(opLog) - 1) :
        (/\ Pair(i, "add", "remove")
         /\ ~DictHas(opLog[i].preStencil, opLog[i].disp)
         /\ \A p \in Procs : ~DictHas(opLog[i].preDpis[p], opLog[i].disp)) =>
            /\ opLog[i + 1].err = "none"
            /\ PostStencil(i + 1) = opLog[i].preStencil
            /\ PostDpis(i + 1) = opLog[i].preDpis

\* the displacements a table holds
Keys(dict) == {dict[i].disp : i \in 1 .. Len(dict)}

\* C12: after any sequence of addStencilBranch and removeStencilBranch
\* calls, failed ones included, the displacements that have a weight are
\* exactly the displacements that have a plan, on every process.
C12_WeightsAndPlansAgree ==
    \A p \in Procs : Keys(stencil) = Keys(dpis[p])

\* C15: an addStencilBranch call whose plan computation fails reports the
\* error and leaves the stencil table and the plan table exactly as they
\* were before the call.
C15_FailedAddChangesNothing ==
    \A i \in 1 .. Len(opLog) :
        (opLog[i].op = "add" /\ opLog[i].err # "none") =>
            /\ PostStencil(i) = opLog[i].preStencil
            /\ PostDpis(i) = opLog[i].preDpis

\* C17: the window ids of one process are pairwise distinct over all
\* displacements and partitions, and a getData for a displacement names the
\* id under which a slab of that same displacement was exposed, so the window
\* it addresses never holds the slab of another displacement.
C17_HandleIsolation ==
    \A p \in Procs :
        /\ \A i, j \in 1 .. Len(ExposeList(p)) :
              ExposeList(p)[i].winId = ExposeList(p)[j].winId => i = j
        /\ pc[p] \in {"fence1", "fence2"} =>
              LET f == FetchList(p)[k[p]]
                  plan == DictGet(dpis[p], f.disp)
              IN  /\ f.winId \in DOMAIN windows[p]
                  /\ \E i \in 1 .. Len(plan.srcs) :
                        /\ plan.remoteWinIds[i] = f.winId
                        /\ windows[p][f.winId].slce = plan.srcs[i]
                        /\ f.dst = plan.dsts[i]

\* a process is inside the getData of its second displacement, for the halo
\* partition, while the windows of two displacements are exposed
C17_Witness ==
    \E p \in Procs :
        /\ pc[p] = "fence2" /\ Len(stencil) = 2 /\ Len(dpis[p]) = 2
        /\ FetchList(p)[k[p]].disp = stencil[2].disp
        /\ FetchList(p)[k[p]].disp # 0
        /\ FetchList(p)[k[p]].winId = <<stencil[2].disp, stencil[2].disp>>
        /\ Cardinality(DOMAIN windows[p]) = Len(ExposeList(p))

\* process p waits in a fence of getData that not every process has entered
Blocked(p) == pc[p] \in {"fence1", "fence2"} /\ ~FenceOpen(p)

\* C18: when every process calls apply once on the same branches, every
\* call eventually returns, it returns only after all its getData calls have
\* completed, and in no state are all processes blocked inside a getData.
C18_ApplyTerminates ==
    /\ <>(\A p \in Procs : pc[p] = "done")
    /\ [](\A p \in Procs : pc[p] = "done" => nGet[p] = Len(FetchList(p)))
    /\ [](\E p \in Procs : ~Blocked(p))

\* two processes have returned from a call with four getData calls each
C18_Witness ==
    /\ nprocs = 2 /\ ~periodic
    /\ \A p \in Procs : pc[p] = "done" /\ calls[p] = 1 /\ nGet[p] = 4
    /\ \A p \in Procs : fenceCnt[p] = 8

\* some process takes a step of its apply call
ApplyStep == \E p \in Procs : pc'[p] # pc[p]

\* process p enters apply
ApplyStarts(p) == pc[p] = "idle" /\ pc'[p] # "idle"

\* C19: apply does not change the operator or its argument: no step of an
\* apply call changes the stencil table, the plan table or the caller's
\* array; every call starts from a zero output and no exposed window; and
\* two calls of a process on the same tables return equal arrays.
C19_ApplyIsReadOnly ==
    /\ [][ApplyStep => (stencil' = stencil /\ dpis' = dpis /\ gin' = gin)]_vars
    /\ [][\A p \in Procs :
            ApplyStarts(p) => (out'[p] = Zeros(nloc) /\ windows'[p] = <<>>)]_vars
    /\ [](\A p \in Procs : \A i, j \in 1 .. Len(ret[p]) :
            (ret[p][i].stencil = ret[p][j].stencil
             /\ ret[p][i].dpis = ret[p][j].dpis) =>
                ret[p][i].out = ret[p][j].out)

\* a process has returned twice from apply on the same two branches, with
\* a non-zero input
C19_Witness ==
    \E p \in Procs :
        /\ Len(ret[p]) = 2 /\ Len(stencil) = 2
        /\ ret[p][1].stencil = stencil /\ ret[p][2].stencil = stencil
        /\ ret[p][1].dpis = dpis[p] /\ ret[p][2].dpis = dpis[p]
        /\ ret[p][1].out = ret[p][2].out
        /\ \E j \in 0 .. (nloc - 1) : LocalArray(p)[j] # 0

\* C7: no apply call ends, by returning or by a propagating failure, with a
\* window still exposed.
C7_NoWindowLeftExposed ==
    \A p \in Procs : pc[p] \in {"done", "failed"} => windows[p] = <<>>

\* C8: an operator with an empty stencil and an empty plan table returns an
\* all-zero array of the input's shape and issues no expose and no getData.
C8_EmptyStencilGivesZero ==
    \A p \in Procs :
        (pc[p] = "done" /\ stencil = <<>> /\ dpis[p] = <<>>) =>
            /\ out[p] = Zeros(nloc)
            /\ nExp[p] = 0
            /\ nGet[p] = 0

\* a process returned from apply on an operator without branches
C8_Witness ==
    \E p \in Procs :
        /\ pc[p] = "done" /\ stencil = <<>> /\ dpis[p] = <<>>
        /\ \E j \in 0 .. (nloc - 1) : LocalArray(p)[j] # 0
        /\ out[p] = Zeros(nloc)

Count(dict, d) == Cardinality({j \in 1 .. Len(dict) : dict[j].disp = d})

\* C9: after addStencilBranch(d, w1) followed by addStencilBranch(d, w2) the
\* stencil holds one entry for d, with weight w2, the plan table one plan for
\* d, and both tables are what addStencilBranch(d, w2) alone gives.
C9_AddOverwrites ==
    \A i \in 1 .. (Len(opLog) - 1) :
        Pair(i, "add", "add") =>
            /\ Count(PostStencil(i + 1), opLog[i].disp) = 1
            /\ DictGet(PostStencil(i + 1), opLog[i].disp).weight = opLog[i + 1].weight
            /\ PostStencil(i + 1)
                 = AddWeight(opLog[i].preStencil, opLog[i].disp, opLog[i + 1].weight)
            /\ \A p \in Procs :
                 /\ Count(PostDpis(i + 1)[p], opLog[i].disp) = 1
                 /\ PostDpis(i + 1)[p] = AddPlan(opLog[i].preDpis[p], p, opLog[i].disp)

\* a displacement was added to a non-empty operator twice, with two weights
C9_Witness ==
    /\ Len(opLog) = 3
    /\ Pair(2, "add", "add")
    /\ opLog[2].weight # opLog[3].weight
    /\ opLog[2].preStencil # <<>>
    /\ Len(stencil) = 2

====
